---- MODULE Spec2Model ----
(***************************************************************************)
(* Referral bot (src/referral_bot.py): the users table of referrals.db,    *)
(* the coroutines add_user, process_referral, check_and_notify_on_goal     *)
(* and the /start handler that chains them.                                *)
(*                                                                         *)
(* Every `await` of a handler is a point where another handler task (or    *)
(* another process on the same database file) may run.  Each connection    *)
(* reads the committed table; its INSERT/UPDATE statements take the        *)
(* database write lock and stay invisible to the others until db.commit(). *)
(* Spec interleaves the /start handlers statement by statement; SeqSpec    *)
(* calls the coroutines one at a time; FailSpec lets storage statements    *)
(* fail; LiveSpec runs the handlers under a fair scheduler.                *)
(***************************************************************************)
EXTENDS Integers, Sequences, FiniteSets, TLC

\* ------------------------------------------------------------------ bounds
\* /start messages handled in one behaviour; each is handled by its own task,
\* so this is also the number of handlers that can be in flight at once.
MaxEvents == 2
\* Users 1..MaxUser send /start; user MaxUser + 1 only hands out its link.
MaxUser == 2
\* bot.send_message calls that raise in one behaviour of LiveSpec.
MaxFailures == 1

\* --------------------------------------------------------- program constants
REFERRAL_GOAL == 10

\* SQL NULL in the invited_by column (user ids are non-negative).
NULL == -1

Tasks == 1..MaxEvents
Arriving == 1..MaxUser
Linked == 1..(MaxUser + 1)

\* ------------------------------------------------------------- /start payload
\* The payload is a string; a string is a sequence of characters.  "sup2" is
\* the character U+00B2, which str.isdigit() accepts and int() rejects.
DecimalChars == <<"0", "1", "2", "3", "4", "5", "6", "7", "8", "9">>

DigitValue(c) == (CHOOSE i \in 1..Len(DecimalChars) : DecimalChars[i] = c) - 1

IsDecimal(c) == \E i \in 1..Len(DecimalChars) : DecimalChars[i] = c

\* str.isdigit(): non-empty and every character is a digit character.
isdigit(s) == Len(s) > 0 /\ \A i \in 1..Len(s) : IsDecimal(s[i]) \/ s[i] = "sup2"

\* int(s) succeeds on decimal digits only; otherwise it raises ValueError.
IntParses(s) == Len(s) > 0 /\ \A i \in 1..Len(s) : IsDecimal(s[i])

RECURSIVE int(_)
int(s) == IF Len(s) = 0 THEN 0
          ELSE 10 * int(SubSeq(s, 1, Len(s) - 1)) + DigitValue(s[Len(s)])

\* str(n) for 0 <= n <= 9, as the deep link of user n carries it.
str(n) == <<DecimalChars[n + 1]>>

\* The payloads the transport delivers: none, a word, a non-decimal digit,
\* a zero-padded id, and the ids whose links are in circulation.
Payloads == {<<>>, <<"a">>, <<"sup2">>, <<"0", "1">>} \cup {str(n) : n \in Linked}

\* ------------------------------------------------------------------ the table
DefaultRow == [invited_by |-> NULL, referrals |-> 0, goal_achieved_notified |-> 0]

\* INSERT OR REPLACE INTO users (user_id) VALUES (?): an existing row is
\* replaced by a fresh one.
InsertOrReplace(db, user_id) ==
    [u \in DOMAIN db \cup {user_id} |->
        IF u = user_id THEN DefaultRow ELSE db[u]]

\* INSERT OR IGNORE INTO users (user_id) VALUES (?)
InsertOrIgnore(db, user_id) ==
    IF user_id \in DOMAIN db THEN db ELSE db @@ (user_id :> DefaultRow)

\* SELECT invited_by FROM users WHERE user_id = ?  -- fetchone(): <<>> is None
SelectInvitedBy(db, user_id) ==
    IF user_id \in DOMAIN db THEN <<db[user_id].invited_by>> ELSE <<>>

\* Line 57 without `result[0] is None`: an attributed user is attributed again.
ReferralAcceptedAgain(result, user_id, inviter_id) ==
    result # <<>> /\ user_id # inviter_id

\* Line 57 without `user_id != inviter_id`.
ReferralAcceptedSelf(result, user_id, inviter_id) ==
    result # <<>> /\ result[1] = NULL

\* if result and result[0] is None and user_id != inviter_id
ReferralAccepted(result, user_id, inviter_id) ==
    /\ result # <<>>
    /\ result[1] = NULL
    /\ user_id # inviter_id

\* Line 58 without its WHERE clause: every row is updated.
UpdateInvitedByAll(db, inviter_id, user_id) ==
    [v \in DOMAIN db |-> [db[v] EXCEPT !.invited_by = inviter_id]]

\* UPDATE users SET invited_by = ? WHERE user_id = ?
UpdateInvitedBy(db, inviter_id, user_id) ==
    IF user_id \in DOMAIN db THEN [db EXCEPT ![user_id].invited_by = inviter_id] ELSE db

\* UPDATE users SET referrals = 1 WHERE user_id = ?
SetReferralsOne(db, inviter_id) ==
    IF inviter_id \in DOMAIN db THEN [db EXCEPT ![inviter_id].referrals = 1] ELSE db

\* UPDATE users SET referrals = referrals + 1 WHERE user_id = ?
IncrementReferrals(db, inviter_id) ==
    IF inviter_id \in DOMAIN db THEN [db EXCEPT ![inviter_id].referrals = @ + 1] ELSE db

\* SELECT referrals, goal_achieved_notified FROM users WHERE user_id = ?
SelectGoal(db, inviter_id) ==
    IF inviter_id \in DOMAIN db
    THEN <<db[inviter_id].referrals, db[inviter_id].goal_achieved_notified>>
    ELSE <<>>

\* if referrals == REFERRAL_GOAL and not notified
GoalReachedExactly(result) == result[1] = REFERRAL_GOAL /\ result[2] = 0

\* Line 74 without `referrals >= REFERRAL_GOAL`.
GoalReachedAnyCount(result) == result[2] = 0

\* Line 74 without `not notified`.
GoalReachedAgain(result) == result[1] >= REFERRAL_GOAL

\* if referrals >= REFERRAL_GOAL and not notified
GoalReached(result) == result[1] >= REFERRAL_GOAL /\ result[2] = 0

\* UPDATE users SET goal_achieved_notified = 1 WHERE user_id = ?
SetNotified(db, inviter_id) ==
    IF inviter_id \in DOMAIN db
    THEN [db EXCEPT ![inviter_id].goal_achieved_notified = 1] ELSE db

\* SELECT referrals FROM users WHERE user_id = ?  -- fetchone()
SelectReferrals(db, user_id) ==
    IF user_id \in DOMAIN db THEN <<db[user_id].referrals>> ELSE <<>>

\* ---------------------------------------------------------------------- state
VARIABLES
    users,      \* the committed rows of table users: user_id -> row
    writer,     \* the task whose connection holds the write lock, or 0
    pending,    \* the writer's uncommitted image of the table; <<>> without writer
    pc,         \* per task: the await the handler is suspended at
    user_id,    \* per task: message.from_user.id
    args,       \* per task: message.get_args()
    inviter_id, \* per task: int(args), or NULL before it is computed
    referred,   \* per task: process_referral returned True
    outbox,     \* per user: send_message calls that delivered / that raised
    calls,      \* the last process_referral calls made one after the other (SeqSpec)
    shown       \* what the get_user_referrals call just made returned (SeqSpec)

vars == <<users, writer, pending, pc, user_id, args, inviter_id, referred, outbox, calls, shown>>

\* Rows present before the first modelled /start: either none (a fresh
\* referrals.db after init_db), or the rows left by REFERRAL_GOAL - 1 earlier
\* /start messages, handled one after the other, of users that followed the
\* link of user MaxUser + 1.
SeedInviter == MaxUser + 1

SeedUsers(k) == (SeedInviter + 1)..(SeedInviter + k)

SeedTable(k) ==
    IF k = 0 THEN <<>>
    ELSE [v \in {SeedInviter} \cup SeedUsers(k) |->
            IF v = SeedInviter THEN [DefaultRow EXCEPT !.referrals = k]
            ELSE [DefaultRow EXCEPT !.invited_by = SeedInviter]]

SeedCounts == {0, REFERRAL_GOAL - 1}

NoMessages == [ok |-> 0, err |-> 0]

Init ==
    /\ \E k \in SeedCounts : users = SeedTable(k)
    /\ writer = 0
    /\ pending = <<>>
    /\ pc = [t \in Tasks |-> "idle"]
    /\ user_id = [t \in Tasks |-> 0]
    /\ args = [t \in Tasks |-> <<>>]
    /\ inviter_id = [t \in Tasks |-> NULL]
    /\ referred = [t \in Tasks |-> FALSE]
    /\ outbox = [u \in Linked |-> NoMessages]
    /\ calls = <<>>
    /\ shown = <<>>

\* ------------------------------------------------------------- handle_start
\* The dispatcher starts a task for the next /start message: from user u, with
\* payload a.  Messages are numbered in their order of arrival.
Start(t, u, a) ==
    /\ pc[t] = "idle"
    /\ \A s \in Tasks : s < t => pc[s] # "idle"
    /\ pc' = [pc EXCEPT ![t] = "add_user"]
    /\ user_id' = [user_id EXCEPT ![t] = u]
    /\ args' = [args EXCEPT ![t] = a]
    /\ UNCHANGED <<users, writer, pending, inviter_id, referred, outbox, calls, shown>>

\* The connection opened with isolation_level=None: every statement is
\* committed as it is executed.
WriteAutocommit(t, at, next, db) ==
    /\ pc[t] = at
    /\ writer \in {0, t}
    /\ writer' = t
    /\ pending' = db
    /\ users' = db
    /\ pc' = [pc EXCEPT ![t] = next]
    /\ UNCHANGED <<user_id, args, inviter_id, referred, outbox, calls, shown>>

\* A connection's first INSERT/UPDATE opens its transaction and takes the
\* database write lock; it waits while another connection holds the lock.
\* Its writes stay in its own image of the table until commit.
Write(t, at, next, db) ==
    /\ pc[t] = at
    /\ writer \in {0, t}
    /\ writer' = t
    /\ pending' = db
    /\ pc' = [pc EXCEPT ![t] = next]
    /\ UNCHANGED <<users, user_id, args, inviter_id, referred, outbox, calls, shown>>

\* db.commit(): the writer's image becomes the committed table.
Commit(t, at) ==
    /\ pc[t] = at
    /\ writer = t
    /\ users' = pending
    /\ writer' = 0
    /\ pending' = <<>>

\* A transaction of one statement, INSERT/UPDATE then commit: its uncommitted
\* image is visible to no other connection, so it is one step.
WriteCommit(t, at, db) ==
    /\ pc[t] = at
    /\ writer = 0
    /\ users' = db
    /\ UNCHANGED <<writer, pending>>

\* handle_start without line 106: process_referral is awaited right after
\* the test of line 105.
AfterAddUserSkipsInviter(a, u) ==
    IF Len(a) > 0 /\ isdigit(a)
    THEN IF ~IntParses(a) THEN "raised"
         ELSE IF int(a) # u THEN "select_invited_by" ELSE "answered"
    ELSE "answered"

\* What handle_start does with the payload once add_user(user_id) returned:
\* the label it continues at ("answered": create_start_link and
\* message.answer, the handler returns; "raised": int(args) raised ValueError
\* and the handler ends with it).
AfterAddUser(a, u) ==
    IF Len(a) > 0 /\ isdigit(a)
    THEN IF ~IntParses(a) THEN "raised"
         ELSE IF int(a) # u THEN "add_inviter" ELSE "answered"
    ELSE "answered"

\* Whether handle_start reaches inviter_id = int(args) and int returns.
HasInviter(a) == Len(a) > 0 /\ isdigit(a) /\ IntParses(a)

\* await add_user(user_id); args = message.get_args(); lines 103-105.  args
\* is not read again.
AddUser(t) ==
    /\ WriteCommit(t, "add_user", InsertOrIgnore(users, user_id[t]))
    /\ pc' = [pc EXCEPT ![t] = AfterAddUser(args[t], user_id[t])]
    /\ inviter_id' = [inviter_id EXCEPT ![t] =
            IF HasInviter(args[t]) THEN int(args[t]) ELSE NULL]
    /\ args' = [args EXCEPT ![t] = <<>>]
    /\ UNCHANGED <<user_id, referred, outbox, calls, shown>>

\* await add_user(inviter_id)
AddInviter(t) ==
    /\ WriteCommit(t, "add_inviter", InsertOrIgnore(users, inviter_id[t]))
    /\ pc' = [pc EXCEPT ![t] = "select_invited_by"]
    /\ UNCHANGED <<user_id, args, inviter_id, referred, outbox, calls, shown>>

\* Line 107 without its `if`: check_and_notify_on_goal is awaited whatever
\* process_referral returned.
AfterProcessReferralAlways(returned) == "select_goal"

\* if await process_referral(...): await check_and_notify_on_goal(inviter_id);
\* otherwise handle_start goes on to its answer.
AfterProcessReferral(returned) == IF returned THEN "select_goal" ELSE "answered"

\* ---------------------------------------------------------- process_referral
\* SELECT invited_by ...; fetchone(); the test of line 57.  A rejected call
\* returns False without writing, and handle_start goes on to answer.
SelectReferral(t) ==
    /\ pc[t] = "select_invited_by"
    /\ pc' = [pc EXCEPT ![t] =
            IF ReferralAccepted(SelectInvitedBy(users, user_id[t]), user_id[t], inviter_id[t])
            THEN "update_invited_by" ELSE AfterProcessReferral(FALSE)]
    /\ UNCHANGED <<users, writer, pending, user_id, args, inviter_id, referred, outbox, calls, shown>>

UpdateInvitedByStep(t) ==
    Write(t, "update_invited_by", "update_referrals",
          UpdateInvitedBy(users, inviter_id[t], user_id[t]))

UpdateReferralsStep(t) ==
    Write(t, "update_referrals", "referral_commit",
          IncrementReferrals(pending, inviter_id[t]))

\* db.commit(); return True
ReferralCommit(t) ==
    /\ Commit(t, "referral_commit")
    /\ pc' = [pc EXCEPT ![t] = AfterProcessReferral(TRUE)]
    /\ referred' = [referred EXCEPT ![t] = TRUE]
    /\ UNCHANGED <<user_id, args, inviter_id, outbox, calls, shown>>

\* The second UPDATE or db.commit() raises, or the process dies, with the
\* transaction open: `async with aiosqlite.connect` closes the connection
\* without commit, which rolls the transaction back, and the exception leaves
\* process_referral and handle_start.
ReferralAborts(t) ==
    /\ pc[t] \in {"update_referrals", "referral_commit"}
    /\ writer = t
    /\ writer' = 0
    /\ pending' = <<>>
    /\ pc' = [pc EXCEPT ![t] = "raised"]
    /\ UNCHANGED <<users, user_id, args, inviter_id, referred, outbox, calls, shown>>

\* -------------------------------------------------- check_and_notify_on_goal
\* Whether check_and_notify_on_goal goes on to bot.send_message after its
\* SELECT: the row exists (line 70) and passes the test of line 74.
Notifies(result) == result # <<>> /\ GoalReached(result)

SelectGoalStep(t) ==
    /\ pc[t] = "select_goal"
    /\ pc' = [pc EXCEPT ![t] =
            IF Notifies(SelectGoal(users, inviter_id[t])) THEN "send_message" ELSE "answered"]
    /\ UNCHANGED <<users, writer, pending, user_id, args, inviter_id, referred, outbox, calls, shown>>

\* Lines 81-82 moved out of the try block: the flag is written whether
\* send_message returned or raised.
MarksNotifiedAlways(delivered) == TRUE

\* Whether the UPDATE of line 81 follows bot.send_message: it does when the
\* call returned; when it raised, the except clause logs and the function
\* returns.
MarksNotified(delivered) == delivered

\* check_and_notify_on_goal without its try/except: an exception of
\* send_message leaves the function and handle_start.
AfterSendMessageUncaught(delivered) ==
    IF delivered THEN "update_notified" ELSE "raised"

\* Where the handler continues after bot.send_message: at the UPDATE of line
\* 81, or, from the except clause, back in handle_start at its answer.
AfterSendMessage(delivered) ==
    IF MarksNotified(delivered) THEN "update_notified" ELSE "answered"

\* await bot.send_message(inviter_id, ...): delivers, or raises.
SendMessage(t, delivered) ==
    /\ pc[t] = "send_message"
    /\ outbox' = [outbox EXCEPT ![inviter_id[t]] =
            IF delivered THEN [@ EXCEPT !.ok = @ + 1] ELSE [@ EXCEPT !.err = @ + 1]]
    /\ pc' = [pc EXCEPT ![t] = AfterSendMessage(delivered)]
    /\ UNCHANGED <<users, writer, pending, user_id, args, inviter_id, referred, calls, shown>>

\* UPDATE ... SET goal_achieved_notified = 1; db.commit(); back in
\* handle_start, which answers.
UpdateNotified(t) ==
    /\ WriteCommit(t, "update_notified", SetNotified(users, inviter_id[t]))
    /\ pc' = [pc EXCEPT ![t] = "answered"]
    /\ UNCHANGED <<user_id, args, inviter_id, referred, outbox, calls, shown>>

\* The UPDATE of line 81 or the commit of line 82 raises: `except Exception`
\* catches it like a failed send_message, logs, and the function returns; the
\* connection closes without commit.  handle_start answers.
UpdateNotifiedFails(t) ==
    /\ pc[t] = "update_notified"
    /\ pc' = [pc EXCEPT ![t] = "answered"]
    /\ UNCHANGED <<users, writer, pending, user_id, args, inviter_id, referred, outbox, calls, shown>>

Next ==
    \/ \E t \in Tasks, u \in Arriving, a \in Payloads : Start(t, u, a)
    \/ \E t \in Tasks : AddUser(t)
    \/ \E t \in Tasks : AddInviter(t)
    \/ \E t \in Tasks : SelectReferral(t)
    \/ \E t \in Tasks : UpdateInvitedByStep(t)
    \/ \E t \in Tasks : UpdateReferralsStep(t)
    \/ \E t \in Tasks : ReferralCommit(t)
    \/ \E t \in Tasks : SelectGoalStep(t)
    \/ \E t \in Tasks, delivered \in BOOLEAN : SendMessage(t, delivered)
    \/ \E t \in Tasks : UpdateNotified(t)

\* The handlers with a store whose statements succeed and a notifier that
\* may fail.
Spec == Init /\ [][Next]_vars

\* ------------------------------------------ the handlers with a failing store
\* The handlers of /start messages that carry a referral link, with a
\* notifier that delivers and a store whose statements may fail inside
\* process_referral's transaction and at the write of the flag.
FailNext ==
    \/ \E t \in Tasks, u \in Arriving, n \in Linked : Start(t, u, str(n))
    \/ \E t \in Tasks : AddUser(t)
    \/ \E t \in Tasks : AddInviter(t)
    \/ \E t \in Tasks : SelectReferral(t)
    \/ \E t \in Tasks : UpdateInvitedByStep(t)
    \/ \E t \in Tasks : UpdateReferralsStep(t)
    \/ \E t \in Tasks : ReferralCommit(t)
    \/ \E t \in Tasks : SelectGoalStep(t)
    \/ \E t \in Tasks : SendMessage(t, TRUE)
    \/ \E t \in Tasks : UpdateNotified(t)
    \/ \E t \in Tasks : ReferralAborts(t)
    \/ \E t \in Tasks : UpdateNotifiedFails(t)

FailSpec == Init /\ [][FailNext]_vars

\* ------------------------------------ the handlers under a fair scheduler
\* The send_message calls that have raised so far.
RECURSIVE Raised(_)
Raised(S) ==
    IF S = {} THEN 0
    ELSE LET u == CHOOSE v \in S : TRUE
         IN  outbox[u].err + Raised(S \ {u})

\* The notifier eventually succeeds: send_message raises at most MaxFailures
\* times.
NotifierUp == Raised(Linked) >= MaxFailures

LiveSendMessage(t, delivered) ==
    /\ delivered \/ ~NotifierUp
    /\ SendMessage(t, delivered)

\* The steps of the handler of message t after its arrival, with a store
\* that does not fail.
Handler(t) ==
    \/ AddUser(t)
    \/ AddInviter(t)
    \/ SelectReferral(t)
    \/ UpdateInvitedByStep(t)
    \/ UpdateReferralsStep(t)
    \/ ReferralCommit(t)
    \/ SelectGoalStep(t)
    \/ \E delivered \in BOOLEAN : LiveSendMessage(t, delivered)
    \/ UpdateNotified(t)

\* Referrals to one inviter keep arriving: every message is /start with the
\* link of the seeded inviter.
LiveNext ==
    \/ \E t \in Tasks, u \in Arriving : Start(t, u, str(SeedInviter))
    \/ \E t \in Tasks : Handler(t)

\* asyncio resumes every coroutine whose await has completed, and a
\* statement waiting for the write lock gets it once the holder has
\* committed: every handler that can take a step eventually takes one.
LiveSpec == Init /\ [][LiveNext]_vars /\ \A t \in Tasks : WF_vars(Handler(t))

\* ------------------------------------------- the coroutines, run one at a time
\* process_referral run from its SELECT to its return with no other
\* connection in between: what it returns and the table it leaves.
process_referral(db, uid, inviter) ==
    IF ReferralAccepted(SelectInvitedBy(db, uid), uid, inviter)
    THEN [returned |-> TRUE,
          db |-> IncrementReferrals(UpdateInvitedBy(db, inviter, uid), inviter)]
    ELSE [returned |-> FALSE, db |-> db]

\* The process_referral call just made joins the record of the last two.
Called(uid, inviter, returned) ==
    LET c == [user_id |-> uid, inviter_id |-> inviter,
              returned |-> returned, before |-> users]
    IN  calls' = IF calls = <<>> THEN <<c>> ELSE <<calls[Len(calls)], c>>

\* get_user_referrals that first makes sure the row exists (add_user), then
\* reads it.
get_or_create_user_referrals(db, uid) ==
    [returned |-> IF uid \in DOMAIN db THEN db[uid].referrals ELSE 0,
     db |-> InsertOrIgnore(db, uid)]

\* get_user_referrals: what it returns and the table it leaves.
get_user_referrals(db, uid) ==
    LET result == SelectReferrals(db, uid)
    IN  [returned |-> IF result # <<>> THEN result[1] ELSE 0, db |-> db]

TasksIdle == UNCHANGED <<writer, pending, pc, user_id, args, inviter_id, referred, outbox>>

\* await add_user(uid); the process_referral calls before it are no longer
\* the last calls.
CallAddUser(uid) ==
    /\ users' = InsertOrIgnore(users, uid)
    /\ calls' = <<>>
    /\ shown' = <<>>
    /\ TasksIdle

\* await process_referral(user_id=uid, inviter_id=inviter)
CallProcessReferral(uid, inviter) ==
    /\ users' = process_referral(users, uid, inviter).db
    /\ Called(uid, inviter, process_referral(users, uid, inviter).returned)
    /\ shown' = <<>>
    /\ TasksIdle

\* handle_progress: referrals = await get_user_referrals(user_id=uid); the
\* process_referral calls before it are no longer the last calls.
CallGetUserReferrals(uid) ==
    /\ users' = get_user_referrals(users, uid).db
    /\ shown' = [user_id |-> uid, returned |-> get_user_referrals(users, uid).returned]
    /\ calls' = <<>>
    /\ TasksIdle

SeqNext ==
    \/ \E uid \in Linked : CallAddUser(uid)
    \/ \E uid \in Arriving, inviter \in Linked : CallProcessReferral(uid, inviter)
    \/ \E uid \in Linked : CallGetUserReferrals(uid)

SeqSpec == Init /\ [][SeqNext]_vars

\* ------------------------------------------------------------------- claims
Invitees(db, u) == {v \in DOMAIN db : db[v].invited_by = u}

Notified(db, u) == u \in DOMAIN db /\ db[u].goal_achieved_notified = 1

\* C1: in every reachable state, and under any interleaving of /start
\* handlers, the stored referrals of every user equals the number of rows
\* whose invited_by is that user.
C1_ReferralsCountInvitees ==
    \A u \in DOMAIN users : users[u].referrals = Cardinality(Invitees(users, u))

\* C2: of two process_referral calls for the same new user with different
\* inviters that run concurrently, exactly one returns True, and only the
\* winner's referrals grows, by one.
C2_OneConcurrentCallWins ==
    \A s \in Tasks, t \in Tasks :
        (/\ s # t
         /\ pc[s] \in {"select_goal", "send_message", "update_notified", "answered"}
         /\ pc[t] \in {"select_goal", "send_message", "update_notified", "answered"}
         /\ user_id[s] = user_id[t]
         /\ inviter_id[s] # NULL /\ inviter_id[t] # NULL
         /\ inviter_id[s] # inviter_id[t]
         /\ inviter_id[s] # user_id[s] /\ inviter_id[t] # user_id[t])
        => ~(referred[s] /\ referred[t])

\* C3: once the invited_by of a row is not NULL, no step of any handler
\* changes it.
C3_InvitedByNeverChanges ==
    [][\A u \in DOMAIN users :
          users[u].invited_by # NULL => users'[u].invited_by = users[u].invited_by]_vars

\* C4: over any execution, concurrent /start handlers included, at most one
\* goal message is delivered to a given inviter.
C4_NotifiedAtMostOnce == \A u \in Linked : outbox[u].ok <= 1

\* C7: in every reachable state, committed or in a transaction, no row has
\* invited_by equal to its own user_id.
C7_NoSelfReferral ==
    /\ \A u \in DOMAIN users : users[u].invited_by # u
    /\ \A u \in DOMAIN pending : pending[u].invited_by # u

\* A /start of user u carrying u's own id was handled to its answer, and
\* other users have been attributed meanwhile.
C7_Witness ==
    \E t \in Tasks :
        /\ pc[t] = "answered"
        /\ inviter_id[t] = user_id[t]
        /\ users[user_id[t]].invited_by = NULL
        /\ \E v \in DOMAIN users : v <= MaxUser /\ users[v].invited_by # NULL

\* C8: when send_message raises for an inviter at the goal, the table is left
\* as it was (goal_achieved_notified stays 0) and the handler goes on to its
\* answer; every later check of an inviter at the goal whose flag is 0 calls
\* send_message again; and the flag is 1 only after a send_message that
\* returned.
C8_FailedSendKeepsFlag ==
    /\ [](\A u \in DOMAIN users : Notified(users, u) => outbox[u].ok >= 1)
    /\ [][\A t \in Tasks :
            /\ (pc[t] = "send_message" /\ pc'[t] # "send_message"
                /\ outbox'[inviter_id[t]].err > outbox[inviter_id[t]].err)
               => (users' = users /\ pending' = pending /\ pc'[t] = "answered")
            /\ (pc[t] = "select_goal" /\ pc'[t] # "select_goal"
                /\ inviter_id[t] \in DOMAIN users
                /\ users[inviter_id[t]].referrals >= REFERRAL_GOAL
                /\ ~Notified(users, inviter_id[t]))
               => pc'[t] = "send_message"]_vars

\* A handler whose send_message raised has answered, the flag is still 0, and
\* the handler of the next referral is at send_message for the same inviter.
C8_Witness ==
    \E s \in Tasks, t \in Tasks :
        /\ s # t
        /\ pc[s] = "answered" /\ referred[s]
        /\ inviter_id[t] = inviter_id[s]
        /\ outbox[inviter_id[s]].err >= 1 /\ outbox[inviter_id[s]].ok = 0
        /\ ~Notified(users, inviter_id[s])
        /\ pc[t] = "send_message"

\* C9: in every reachable state a row with goal_achieved_notified = 1 has
\* referrals >= REFERRAL_GOAL, and the flag of a row never goes back to 0.
C9_FlagImpliesGoal ==
    /\ [](\A u \in DOMAIN users :
            Notified(users, u) => users[u].referrals >= REFERRAL_GOAL)
    /\ [][\A u \in DOMAIN users : Notified(users, u) => Notified(users', u)]_vars

\* A row's flag is 1 and a later referral has raised its count above the goal.
C9_Witness ==
    \E u \in DOMAIN users : Notified(users, u) /\ users[u].referrals > REFERRAL_GOAL

\* C10: check_and_notify_on_goal goes on to send_message exactly when the row
\* it read has referrals >= REFERRAL_GOAL and goal_achieved_notified = 0;
\* otherwise, and for an id without a row, it returns without calling
\* send_message and without writing.  So a handler is at send_message or at
\* the UPDATE only for an inviter at the goal.
C10_ChecksBeforeNotifying ==
    /\ [](/\ \A t \in Tasks :
               pc[t] \in {"send_message", "update_notified"}
               => (/\ referred[t]
                   /\ inviter_id[t] \in DOMAIN users
                   /\ users[inviter_id[t]].referrals >= REFERRAL_GOAL)
          /\ \A u \in Linked : u \notin DOMAIN users => ~Notifies(SelectGoal(users, u)))
    /\ [][\A t \in Tasks :
            (pc[t] = "select_goal" /\ pc'[t] # "select_goal")
            => /\ users' = users /\ pending' = pending /\ outbox' = outbox
               /\ pc'[t] = IF /\ inviter_id[t] \in DOMAIN users
                              /\ users[inviter_id[t]].referrals >= REFERRAL_GOAL
                              /\ ~Notified(users, inviter_id[t])
                           THEN "send_message" ELSE "answered"]_vars

\* The inviter was notified once; the handler of a later referral to the same
\* inviter has answered, and no second send_message was attempted.
C10_Witness ==
    \E s \in Tasks, t \in Tasks :
        /\ s # t
        /\ pc[s] = "answered" /\ referred[s]
        /\ pc[t] = "answered" /\ referred[t]
        /\ inviter_id[t] = inviter_id[s]
        /\ Notified(users, inviter_id[s])
        /\ users[inviter_id[s]].referrals = REFERRAL_GOAL + 1
        /\ outbox[inviter_id[s]] = [ok |-> 1, err |-> 0]

\* C5: process_referral(A, B) then process_referral(A, C), run one after the
\* other on a table where A has a row with invited_by NULL and B has a row,
\* B # A, C # A: the first returns True, sets A's invited_by to B and adds
\* one to B's referrals, changing nothing else; the second returns False and
\* leaves the table as it was, whether C is B or not.
C5_FirstAttributionWins ==
    (/\ Len(calls) = 2
     /\ calls[1].user_id = calls[2].user_id
     /\ calls[1].user_id \in DOMAIN calls[1].before
     /\ calls[1].before[calls[1].user_id].invited_by = NULL
     /\ calls[1].inviter_id \in DOMAIN calls[1].before
     /\ calls[1].inviter_id # calls[1].user_id
     /\ calls[2].inviter_id # calls[2].user_id)
    => LET A == calls[1].user_id
           B == calls[1].inviter_id
           old == calls[1].before
           mid == calls[2].before
       IN  /\ calls[1].returned
           /\ DOMAIN mid = DOMAIN old
           /\ mid[A].invited_by = B
           /\ mid[B].referrals = old[B].referrals + 1
           /\ mid[A].referrals = old[A].referrals
           /\ mid[B].invited_by = old[B].invited_by
           /\ \A v \in DOMAIN old : v \notin {A, B} => mid[v] = old[v]
           /\ \A v \in DOMAIN old :
                 mid[v].goal_achieved_notified = old[v].goal_achieved_notified
           /\ ~calls[2].returned
           /\ users = mid

\* The two calls were made, the second for another inviter that has a row.
C5_Witness ==
    /\ Len(calls) = 2
    /\ calls[1].user_id = calls[2].user_id
    /\ calls[1].returned
    /\ calls[2].inviter_id \notin {calls[1].inviter_id, calls[1].user_id}
    /\ calls[1].inviter_id \in DOMAIN calls[1].before
    /\ calls[2].inviter_id \in DOMAIN calls[2].before
    /\ calls[1].before[calls[1].inviter_id].referrals = REFERRAL_GOAL - 1

\* C6: process_referral(A, A) returns False in every state and leaves every
\* row as it was.
C6_SelfReferralRejected ==
    (/\ Len(calls) >= 1
     /\ calls[Len(calls)].user_id = calls[Len(calls)].inviter_id)
    => (~calls[Len(calls)].returned /\ users = calls[Len(calls)].before)

\* process_referral(A, A) was called when A had a row with invited_by NULL.
C6_Witness ==
    /\ Len(calls) >= 1
    /\ calls[Len(calls)].user_id = calls[Len(calls)].inviter_id
    /\ calls[Len(calls)].user_id \in DOMAIN users
    /\ users[calls[Len(calls)].user_id].invited_by = NULL

\* C11: the two UPDATEs of a successful process_referral reach the committed
\* table in one step or not at all: a commit that changes a row's invited_by
\* adds one to the new inviter's referrals in the same step and the other way
\* round, no other step changes either column, and a failure or crash after
\* the first UPDATE and before the commit leaves the committed table as it
\* was and releases the transaction.
C11_AttributionAllOrNothing ==
    [][/\ \A u \in DOMAIN users :
            users'[u].invited_by # users[u].invited_by
            => \E t \in Tasks :
                 /\ pc[t] = "referral_commit" /\ pc'[t] = "select_goal"
                 /\ user_id[t] = u
                 /\ users'[u].invited_by = inviter_id[t]
                 /\ users'[inviter_id[t]].referrals = users[inviter_id[t]].referrals + 1
       /\ \A u \in DOMAIN users :
            users'[u].referrals # users[u].referrals
            => \E t \in Tasks :
                 /\ pc[t] = "referral_commit" /\ pc'[t] = "select_goal"
                 /\ inviter_id[t] = u
                 /\ users'[u].referrals = users[u].referrals + 1
                 /\ users'[user_id[t]].invited_by = u
       /\ \A t \in Tasks :
            (pc[t] \in {"update_referrals", "referral_commit"} /\ pc'[t] = "raised")
            => (users' = users /\ writer' = 0 /\ pending' = <<>>)]_vars

\* A process_referral that had passed the test of line 57 was rolled back:
\* its handler ended with the exception, the user is still unattributed and
\* the inviter's count is the seeded one, while the handler of another
\* message has attributed its user.
C11_Witness ==
    \E t \in Tasks, s \in Tasks :
        /\ pc[t] = "raised"
        /\ inviter_id[t] = SeedInviter
        /\ users[user_id[t]].invited_by = NULL
        /\ referred[s] /\ inviter_id[s] = SeedInviter
        /\ users[SeedInviter].referrals = REFERRAL_GOAL

\* C12: a storage failure is propagated to the caller; in particular, when
\* send_message delivered and the write of goal_achieved_notified then fails,
\* check_and_notify_on_goal raises instead of returning normally.  So once a
\* message was delivered to an inviter and no handler is still about to write
\* the flag, the flag is set or a handler for that inviter ended with the
\* exception.
C12_FlagWriteFailurePropagates ==
    \A u \in Linked :
        (/\ outbox[u].ok >= 1
         /\ \A t \in Tasks : ~(pc[t] = "update_notified" /\ inviter_id[t] = u))
        => \/ Notified(users, u)
           \/ \E t \in Tasks : pc[t] = "raised" /\ referred[t] /\ inviter_id[t] = u

\* C13: add_user is idempotent, also between the statements of other
\* handlers: every add_user(X) step leaves a table with a row for X, creates
\* that row with invited_by NULL, referrals 0 and flag 0 when there was none,
\* and changes no field of any row that existed (the row of X included).
\* Rows are keyed by user_id (PRIMARY KEY), so there is one row per id.
C13_AddUserIdempotent ==
    [][\A t \in Tasks :
          (pc[t] \in {"add_user", "add_inviter"} /\ pc'[t] # pc[t])
          => LET X == IF pc[t] = "add_user" THEN user_id[t] ELSE inviter_id[t]
             IN  /\ DOMAIN users' = DOMAIN users \cup {X}
                 /\ \A v \in DOMAIN users : users'[v] = users[v]
                 /\ X \notin DOMAIN users => users'[X] = DefaultRow]_vars

\* add_user ran for an inviter whose row already carried a count, in the
\* handler of a user whose row carries an invited_by.
C13_Witness ==
    \E t \in Tasks :
        /\ pc[t] = "select_invited_by"
        /\ users[inviter_id[t]].referrals >= REFERRAL_GOAL - 1
        /\ users[user_id[t]].invited_by # NULL

\* C14: get_user_referrals(U) returns the stored referrals of U when U has a
\* row and 0 when it has none (it returns a count, it does not raise), and
\* leaves the table as it was: no row is created for U.
C14_GetUserReferrals ==
    [][shown' # <<>>
       => /\ users' = users
          /\ shown'.returned = IF shown'.user_id \in DOMAIN users
                               THEN users[shown'.user_id].referrals
                               ELSE 0]_vars

\* The count of a user with no row was asked for and 0 came back, the user
\* still has no row, and the table holds an inviter with a count.
C14_Witness ==
    /\ shown # <<>>
    /\ shown.user_id \notin DOMAIN users
    /\ shown.returned = 0
    /\ \E u \in DOMAIN users : users[u].referrals = REFERRAL_GOAL

\* The referrals a user started with: its seeded invitees, which never send
\* a message.
Seeded(db, u) == Cardinality({v \in Invitees(db, u) : v > SeedInviter})

\* The handlers whose process_referral call for inviter u returned True.
Returned(u) == {t \in Tasks : referred[t] /\ inviter_id[t] = u}

\* C15: no increment is lost under concurrent attributions to one inviter:
\* at every moment, so also when all calls have completed, the committed
\* referrals of every user is what it started with plus the number of
\* process_referral calls for it that have returned True.
C15_NoLostIncrement ==
    \A u \in DOMAIN users :
        users[u].referrals = Seeded(users, u) + Cardinality(Returned(u))

\* Two handlers for different new users and the same inviter have both
\* returned True and finished; the inviter's count went from 9 to 11.
C15_Witness ==
    \E t \in Tasks, s \in Tasks :
        /\ user_id[t] # user_id[s]
        /\ Returned(SeedInviter) = {t, s}
        /\ pc[t] = "answered" /\ pc[s] = "answered"
        /\ users[SeedInviter].referrals = REFERRAL_GOAL + 1

\* C16: notification is decoupled from attribution.  A handler enters
\* check_and_notify_on_goal by the commit of its attribution, which puts
\* invited_by and the incremented count in the committed table and ends its
\* transaction; it reaches send_message only from there, holding no
\* transaction; and a send_message that raises leaves the committed table and
\* the attribution's result as they were and the handler goes on to its
\* answer instead of ending with the exception.
C16_NotificationDecoupled ==
    /\ [](\A t \in Tasks :
            pc[t] \in {"select_goal", "send_message"} => (referred[t] /\ writer # t))
    /\ [][\A t \in Tasks :
            /\ (pc'[t] = "select_goal" /\ pc[t] # "select_goal")
               => /\ users'[user_id[t]].invited_by = inviter_id[t]
                  /\ users'[inviter_id[t]].referrals = users[inviter_id[t]].referrals + 1
                  /\ writer' = 0
            /\ (pc'[t] = "send_message" /\ pc[t] # "send_message")
               => (pc[t] = "select_goal" /\ users' = users)
            /\ (pc[t] = "send_message" /\ pc'[t] # "send_message"
                /\ outbox'[inviter_id[t]].err > outbox[inviter_id[t]].err)
               => /\ users' = users
                  /\ referred'[t]
                  /\ pc'[t] = "answered"]_vars

\* The only handler that ran saw its send_message raise and has answered;
\* its attribution is in the committed table.
C16_Witness ==
    \E t \in Tasks :
        /\ pc[t] = "answered" /\ referred[t]
        /\ \A s \in Tasks \ {t} : pc[s] = "idle"
        /\ outbox[inviter_id[t]] = [ok |-> 0, err |-> 1]
        /\ users[user_id[t]].invited_by = inviter_id[t]
        /\ users[inviter_id[t]].referrals = REFERRAL_GOAL

\* C17: send_message is called only from check_and_notify_on_goal, for the
\* inviter of the handler's own process_referral call, and the handler
\* enters check_and_notify_on_goal only by the step in which that call
\* returns True.  A handler whose attribution is rejected or never attempted
\* (own id, user already attributed, no or non-numeric payload) is never in
\* check_and_notify_on_goal and sends nothing, whatever the rows of the table
\* say.
C17_NotifierOnlyAfterAttribution ==
    /\ [](\A t \in Tasks :
            pc[t] \in {"select_goal", "send_message", "update_notified"}
            => (referred[t] /\ inviter_id[t] \in DOMAIN users /\ inviter_id[t] # user_id[t]))
    /\ [][/\ \A u \in Linked :
               outbox'[u] # outbox[u]
               => \E t \in Tasks :
                    /\ pc[t] = "send_message" /\ pc'[t] # "send_message"
                    /\ inviter_id[t] = u
                    /\ referred[t]
          /\ \A t \in Tasks :
               (pc'[t] = "select_goal" /\ pc[t] # "select_goal")
               => (pc[t] = "referral_commit" /\ ~referred[t] /\ referred'[t])
          /\ \A t \in Tasks :
               (pc'[t] = "send_message" /\ pc[t] # "send_message")
               => pc[t] = "select_goal"
          /\ \A t \in Tasks :
               (~referred'[t] /\ pc'[t] # pc[t]) => outbox' = outbox]_vars

\* An inviter is at the goal with flag 0 after a send_message that raised;
\* the same user arrived again with the same link, was rejected and has
\* answered, and no further send_message was attempted.
C17_Witness ==
    \E s \in Tasks, t \in Tasks :
        /\ referred[s] /\ pc[s] = "answered"
        /\ ~referred[t] /\ pc[t] = "answered"
        /\ user_id[t] = user_id[s] /\ inviter_id[t] = inviter_id[s]
        /\ users[inviter_id[s]].referrals = REFERRAL_GOAL
        /\ ~Notified(users, inviter_id[s])
        /\ outbox[inviter_id[s]] = [ok |-> 0, err |-> 1]

\* C19: handle_start awaits process_referral only after add_user has
\* completed for the arriving user and for the inviter: while a handler is in
\* process_referral both rows exist, a successful attribution adds one to the
\* referrals of the inviter's row and of no other row, and no row's
\* invited_by names an id without a row.
C19_InviterRowExists ==
    /\ [](/\ \A t \in Tasks :
               pc[t] \in {"select_invited_by", "update_invited_by",
                          "update_referrals", "referral_commit"}
               => (user_id[t] \in DOMAIN users /\ inviter_id[t] \in DOMAIN users)
          /\ \A u \in DOMAIN users :
               users[u].invited_by # NULL => users[u].invited_by \in DOMAIN users)
    /\ [][\A t \in Tasks :
            (pc[t] = "referral_commit" /\ referred'[t])
            => /\ inviter_id[t] \in DOMAIN users
               /\ users'[inviter_id[t]].referrals = users[inviter_id[t]].referrals + 1
               /\ \A v \in DOMAIN users \ {inviter_id[t]} :
                    users'[v].referrals = users[v].referrals]_vars

\* A user was attributed to an inviter that had no row before the message:
\* line 106 created the row and the increment made its count 1.
C19_Witness ==
    \E t \in Tasks :
        /\ referred[t]
        /\ inviter_id[t] # SeedInviter
        /\ users[user_id[t]].invited_by = inviter_id[t]
        /\ users[inviter_id[t]].referrals = 1

\* An inviter at the goal whose flag is still 0.
NeedsNotice(u) ==
    u \in DOMAIN users /\ users[u].referrals >= REFERRAL_GOAL /\ ~Notified(users, u)

\* C18: the retry policy.  Under a fair scheduler and a notifier that stops
\* failing after MaxFailures failures: whenever an inviter is at the goal
\* with flag 0, a further successful attribution to it has brought a handler
\* into check_and_notify_on_goal and the notifier has stopped failing, the
\* flag eventually becomes 1.  And the flag of a row goes from 0 to 1 only by
\* the UPDATE of a handler whose own attribution to that inviter succeeded:
\* with no further successful attribution the flag stays 0.
C18_RetryOnNextAttribution ==
    /\ \A u \in Linked :
         [](((NeedsNotice(u) /\ NotifierUp
              /\ \E t \in Tasks : pc[t] = "select_goal" /\ inviter_id[t] = u))
            => <>Notified(users, u))
    /\ [][\A u \in DOMAIN users :
            (~Notified(users, u) /\ Notified(users', u))
            => \E t \in Tasks :
                 /\ pc[t] = "update_notified" /\ pc'[t] = "answered"
                 /\ referred[t] /\ inviter_id[t] = u]_vars

\* The send_message of the tenth referral raised and the flag stayed 0; the
\* eleventh referral retried, the message was delivered and the flag is 1.
C18_Witness ==
    \E u \in DOMAIN users :
        /\ users[u].referrals = REFERRAL_GOAL + 1
        /\ Notified(users, u)
        /\ outbox[u] = [ok |-> 1, err |-> 1]

====
